---- MODULE Spec2Model ----
(***************************************************************************)
(* FASTA / GenBank parser (src/src/FastaGenbankParser.jsx).                *)
(*                                                                         *)
(* A JavaScript string is modelled as a sequence of one-character strings, *)
(* so that trimming, splitting and the regular expressions of the source   *)
(* are computed character by character.  Indices follow JavaScript         *)
(* (0-based, -1 for "not found") wherever the source passes them around.   *)
(***************************************************************************)
EXTENDS Integers, Sequences, FiniteSets, TLC

VARIABLES text, pc, fmt, records, reparsed, locus, lines, idx, current, features,
          filename, type, parsed, error, reads

\* the component's state (useState) and the FileReaders handleFile has made
ui == <<filename, type, parsed, error, reads>>

vars == <<text, pc, fmt, records, reparsed, locus, lines, idx, current, features, ui>>

(***************************************************************************)
(* Bounds of the checked input sets.                                       *)
(***************************************************************************)
MaxPieces == 5
MaxWrap == 2
MaxSectionLines == 4
MaxQualLines == 4
MaxIndentLines == 3
MaxSelections == 2

(***************************************************************************)
(* Character classes of the regular expressions.                           *)
(***************************************************************************)
\* \s and String.prototype.trim (the ASCII part)
IsSpace(c) == c \in {" ", "\t", "\n", "\r"}

\* what ^ and $ (flag m) stop at, and what . does not match
IsLineTerminator(c) == c \in {"\n", "\r"}

\* [A-Za-z0-9_\-]
KeyChars ==
    {"A","B","C","D","E","F","G","H","I","J","K","L","M","N","O","P","Q","R","S","T",
     "U","V","W","X","Y","Z","a","b","c","d","e","f","g","h","i","j","k","l","m","n",
     "o","p","q","r","s","t","u","v","w","x","y","z","0","1","2","3","4","5","6","7",
     "8","9","_","-"}

Digits == {"0","1","2","3","4","5","6","7","8","9"}

(***************************************************************************)
(* String primitives.                                                      *)
(***************************************************************************)
Min(a, b) == IF a <= b THEN a ELSE b
Max(a, b) == IF a >= b THEN a ELSE b

\* String.prototype.trim
Trim(s) ==
    LET keep == {i \in 1..Len(s) : ~IsSpace(s[i])}
    IN  IF keep = {} THEN <<>>
        ELSE SubSeq(s, CHOOSE i \in keep : \A j \in keep : i <= j,
                       CHOOSE i \in keep : \A j \in keep : i >= j)

\* String.prototype.substring(a, b): clamps both ends and swaps them when a > b
Substring(s, a, b) ==
    LET ca == Max(0, Min(a, Len(s)))
        cb == Max(0, Min(b, Len(s)))
    IN  SubSeq(s, Min(ca, cb) + 1, Max(ca, cb))

\* the literal lit stands in s at 0-based index p
LiteralAt(s, p, lit) ==
    /\ p >= 0
    /\ p + Len(lit) <= Len(s)
    /\ SubSeq(s, p + 1, p + Len(lit)) = lit

\* ^ under flag m at 0-based index p
AtLineStart(s, p) == p = 0 \/ (p >= 1 /\ p <= Len(s) /\ IsLineTerminator(s[p]))

\* String.prototype.search(/^lit/m): the first index, or -1
SearchLineStart(s, lit) ==
    LET hits == {p \in 0..Len(s) : AtLineStart(s, p) /\ LiteralAt(s, p, lit)}
    IN  IF hits = {} THEN -1 ELSE CHOOSE p \in hits : \A q \in hits : p <= q

\* String.prototype.indexOf(lit, from): the first index >= from, or -1
IndexOf(s, lit, from) ==
    LET hits == {p \in Max(0, from)..Len(s) : LiteralAt(s, p, lit)}
    IN  IF hits = {} THEN -1 ELSE CHOOSE p \in hits : \A q \in hits : p <= q

\* s.replace(/\s+/g, '')
StripSpace(s) == SelectSeq(s, LAMBDA c : ~IsSpace(c))

RECURSIVE Concat(_)
\* Array.prototype.join('')
Concat(ss) == IF ss = <<>> THEN <<>> ELSE Head(ss) \o Concat(Tail(ss))

RECURSIVE SplitLinesFrom(_, _, _)
\* s.split(/\r?\n/), scanning from 1-based index p with the open piece starting at start
SplitLinesFrom(s, start, p) ==
    IF p > Len(s) THEN <<SubSeq(s, start, Len(s))>>
    ELSE IF s[p] = "\n"
         THEN LET stop == IF p - 1 >= start /\ s[p - 1] = "\r" THEN p - 2 ELSE p - 1
              IN  <<SubSeq(s, start, stop)>> \o SplitLinesFrom(s, p + 1, p + 1)
         ELSE SplitLinesFrom(s, start, p + 1)

SplitLines(s) == SplitLinesFrom(s, 1, 1)

RECURSIVE SplitGtFrom(_, _, _)
\* s.split(/^>/m), scanning from 1-based index p with the open piece starting at start
SplitGtFrom(s, start, p) ==
    IF p > Len(s) THEN <<SubSeq(s, start, Len(s))>>
    ELSE IF s[p] = ">" /\ AtLineStart(s, p - 1)
         THEN <<SubSeq(s, start, p - 1)>> \o SplitGtFrom(s, p + 1, p + 1)
         ELSE SplitGtFrom(s, start, p + 1)

SplitGt(s) == SplitGtFrom(s, 1, 1)

(***************************************************************************)
(* detectFormat                                                            *)
(***************************************************************************)
LOCUS == <<"L","O","C","U","S">>

\* variant: the '>' test made before the LOCUS test
detectFormat_GtFirst(t) ==
    IF SearchLineStart(Trim(t), <<">">>) /= -1 THEN "fasta"
    ELSE IF SearchLineStart(t, LOCUS) /= -1 THEN "genbank"
    ELSE "unknown"

detectFormat(t) ==
    LET trimmed == Trim(t)
    IN  IF SearchLineStart(t, LOCUS) /= -1 THEN "genbank"
        ELSE IF SearchLineStart(trimmed, <<">">>) /= -1 THEN "fasta"
        ELSE "unknown"

(***************************************************************************)
(* parseFasta                                                              *)
(***************************************************************************)
\* variant: only the first sequence line is kept
FastaRecord_FirstLineOnly(rec) ==
    LET ls == SplitLines(rec)
        sequence == IF Len(ls) >= 2 THEN StripSpace(ls[2]) ELSE <<>>
    IN  [header |-> Trim(Head(ls)), sequence |-> sequence, length |-> Len(sequence)]

\* one chunk -> { header, sequence, length }
FastaRecord(rec) ==
    LET ls == SplitLines(rec)
        header == Trim(Head(ls))
        sequence == StripSpace(Concat(Tail(ls)))
    IN  [header |-> header, sequence |-> sequence, length |-> Len(sequence)]

\* text.split(/^>/m).map(s => s.trim()).filter(Boolean)
FastaChunks(t) ==
    LET parts == SplitGt(t)
        trimmed == [i \in 1..Len(parts) |-> Trim(parts[i])]
    IN  SelectSeq(trimmed, LAMBDA c : c /= <<>>)

\* variant: a record without sequence is dropped
parseFasta_DropEmpty(t) ==
    LET chunks == FastaChunks(t)
        all == [i \in 1..Len(chunks) |-> FastaRecord(chunks[i])]
    IN  SelectSeq(all, LAMBDA r : r.length > 0)

parseFasta(t) ==
    LET chunks == FastaChunks(t)
    IN  [i \in 1..Len(chunks) |-> FastaRecord(chunks[i])]

(***************************************************************************)
(* parseGenBank: LOCUS line                                                *)
(***************************************************************************)
\* the character classes the quantified parts of the patterns range over:
\* \s, \S, [A-Za-z0-9_\-] and . (anything but a line terminator)
InClass(c, cls) ==
    CASE cls = "space" -> IsSpace(c)
      [] cls = "nonspace" -> ~IsSpace(c)
      [] cls = "key" -> c \in KeyChars
      [] cls = "dot" -> ~IsLineTerminator(c)

\* a greedy quantifier: the number of characters of s from 1-based index p on
\* that are in the class
RunLen(s, p, cls) ==
    IF p < 1 \/ p > Len(s) THEN 0
    ELSE LET ns == {n \in 0..(Len(s) - p + 1) : \A i \in p..(p + n - 1) : InClass(s[i], cls)}
         IN  CHOOSE n \in ns : \A m \in ns : n >= m

\* /^LOCUS\s+(.+)$/m tried at 0-based index p: \s+ is greedy and gives back
\* whitespace until (.+) finds a character that is no line terminator; (.+)
\* then runs to the end of that line.  0-based end (exclusive), or -1.
LocusMatchEndAt(t, p) ==
    LET q  == p + Len(LOCUS)
        w  == RunLen(t, q + 1, "space")
        ks == {k \in 1..w : q + k < Len(t) /\ ~IsLineTerminator(t[q + k + 1])}
    IN  IF ~(AtLineStart(t, p) /\ LiteralAt(t, p, LOCUS)) \/ ks = {} THEN -1
        ELSE LET k == CHOOSE x \in ks : \A y \in ks : x >= y
             IN  q + k + RunLen(t, q + k + 1, "dot")

NoValue == [tag |-> "null", s |-> <<>>]
StrValue(s) == [tag |-> "str", s |-> s]

\* text.match(/^LOCUS\s+(.+)$/m), then locusMatch[0].trim(); null without a match
ExtractLocus(t) ==
    LET hits == {p \in 0..Len(t) : LocusMatchEndAt(t, p) /= -1}
    IN  IF hits = {} THEN NoValue
        ELSE LET p == CHOOSE x \in hits : \A y \in hits : x <= y
             IN  StrValue(Trim(SubSeq(t, p + 1, LocusMatchEndAt(t, p))))

(***************************************************************************)
(* parseGenBank: bounds of the FEATURES section                            *)
(***************************************************************************)
FEATURES == <<"F","E","A","T","U","R","E","S">>
ORIGIN == <<"O","R","I","G","I","N">>
NlSlashSlash == <<"\n","/","/">>

\* variant: a failed search starts the table at the top of the text
FeaturesStart_OrTop(t) == Max(0, SearchLineStart(t, FEATURES))

\* text.search(/^FEATURES/m)
FeaturesStart(t) == SearchLineStart(t, FEATURES)

OriginIndex(t) == SearchLineStart(t, ORIGIN)

EndIndex(t) ==
    IF OriginIndex(t) /= -1 THEN OriginIndex(t)
    ELSE IndexOf(t, NlSlashSlash, FeaturesStart(t))

\* text.substring(featuresStart, endIndex === -1 ? undefined : endIndex)
FeaturesText(t) ==
    Substring(t, FeaturesStart(t), IF EndIndex(t) = -1 THEN Len(t) ELSE EndIndex(t))

(***************************************************************************)
(* parseGenBank: the three line patterns                                   *)
(***************************************************************************)
FeatIndent == 5
QualIndent == 21

NotTerminator(c) == ~IsLineTerminator(c)

\* ^\s{n}: the line opens with n whitespace characters
Indented(line, n) == Len(line) >= n /\ \A i \in 1..n : IsSpace(line[i])

\* /^\s{5}(\S+)\s+(.+)/ : group 1 is the whole run of non-space characters;
\* \s+ is greedy and gives back whitespace until (.+) has a character to take.
FeatMatch(line) ==
    LET n  == RunLen(line, FeatIndent + 1, "nonspace")
        t  == FeatIndent + n
        u  == RunLen(line, t + 1, "space")
        ks == {k \in 1..u : t + k < Len(line) /\ NotTerminator(line[t + k + 1])}
    IN  IF ~Indented(line, FeatIndent) \/ n = 0 \/ ks = {}
        THEN [ok |-> FALSE, key |-> <<>>, location |-> <<>>]
        ELSE LET k == CHOOSE x \in ks : \A y \in ks : x >= y
                 rest == SubSeq(line, t + k + 1,
                                t + k + RunLen(line, t + k + 1, "dot"))
             IN  [ok |-> TRUE, key |-> SubSeq(line, FeatIndent + 1, t),
                  location |-> Trim(rest)]

\* JavaScript values a qualifier slot can hold
QUndefined == [tag |-> "undefined", s |-> <<>>, a |-> <<>>]
QTrue == [tag |-> "true", s |-> <<>>, a |-> <<>>]
QStr(s) == [tag |-> "string", s |-> s, a |-> <<>>]
QArr(a) == [tag |-> "array", s |-> <<>>, a |-> a]
QFunction(name) == [tag |-> "function", s |-> name, a |-> <<>>]

\* variant: the quotes stay part of a quoted value
QualMatch_KeepQuotes(line) ==
    LET n == RunLen(line, QualIndent + 2, "key")
        t == QualIndent + 1 + n
        closing == {c \in (t + 3)..Len(line) : line[c] = "\""}
        token == RunLen(line, t + 2, "nonspace")
    IN  IF ~Indented(line, QualIndent) \/ Len(line) < QualIndent + 1
           \/ line[QualIndent + 1] /= "/" \/ n = 0
        THEN [ok |-> FALSE, key |-> <<>>, val |-> QUndefined]
        ELSE [ok |-> TRUE, key |-> SubSeq(line, QualIndent + 2, t),
              val |-> IF t + 1 <= Len(line) /\ line[t + 1] = "="
                      THEN IF t + 2 <= Len(line) /\ line[t + 2] = "\"" /\ closing /= {}
                           THEN QStr(SubSeq(line, t + 2,
                                     CHOOSE c \in closing : \A d \in closing : c <= d))
                           ELSE IF token > 0 THEN QStr(SubSeq(line, t + 2, t + 1 + token))
                           ELSE QTrue
                      ELSE QTrue]

\* /^\s{21}\/([A-Za-z0-9_\-]+)(?:=(?:\"([^\"]*)\"|(\S+)))?/ and the qVal of the
\* source: group 2 (between the quotes) if it took part, else group 3 (the
\* unquoted token, which is also what an unclosed quote falls back to), else true.
QualMatch(line) ==
    LET n == RunLen(line, QualIndent + 2, "key")
        t == QualIndent + 1 + n
        closing == {c \in (t + 3)..Len(line) : line[c] = "\""}
        token == RunLen(line, t + 2, "nonspace")
    IN  IF ~Indented(line, QualIndent) \/ Len(line) < QualIndent + 1
           \/ line[QualIndent + 1] /= "/" \/ n = 0
        THEN [ok |-> FALSE, key |-> <<>>, val |-> QUndefined]
        ELSE [ok |-> TRUE, key |-> SubSeq(line, QualIndent + 2, t),
              val |-> IF t + 1 <= Len(line) /\ line[t + 1] = "="
                      THEN IF t + 2 <= Len(line) /\ line[t + 2] = "\"" /\ closing /= {}
                           THEN QStr(SubSeq(line, t + 3,
                                     (CHOOSE c \in closing : \A d \in closing : c <= d) - 1))
                           ELSE IF token > 0 THEN QStr(SubSeq(line, t + 2, t + 1 + token))
                           ELSE QTrue
                      ELSE QTrue]

\* /^\s{21}(.+)/ and contMatch[1].trim()
ContMatch(line) ==
    LET n == RunLen(line, QualIndent + 1, "dot")
    IN  IF ~Indented(line, QualIndent) \/ n = 0
        THEN [ok |-> FALSE, addition |-> <<>>]
        ELSE [ok |-> TRUE,
              addition |-> Trim(SubSeq(line, QualIndent + 1, QualIndent + n))]

(***************************************************************************)
(* The qualifiers object.  A plain JavaScript object is modelled as the    *)
(* sequence of its own (key, value) entries in the order Object.keys       *)
(* lists them: array-index keys in ascending numeric order first, then the *)
(* other keys in the order of their creation.  A key the object does not   *)
(* own is looked up on Object.prototype.                                   *)
(***************************************************************************)
\* the method names of Object.prototype that the key pattern admits (the
\* accessor __proto__ is not among the checked inputs)
ObjectPrototypeMethods ==
    {<<"c","o","n","s","t","r","u","c","t","o","r">>,
     <<"h","a","s","O","w","n","P","r","o","p","e","r","t","y">>,
     <<"i","s","P","r","o","t","o","t","y","p","e","O","f">>,
     <<"p","r","o","p","e","r","t","y","I","s","E","n","u","m","e","r","a","b","l","e">>,
     <<"t","o","L","o","c","a","l","e","S","t","r","i","n","g">>,
     <<"t","o","S","t","r","i","n","g">>,
     <<"v","a","l","u","e","O","f">>,
     <<"_","_","d","e","f","i","n","e","G","e","t","t","e","r","_","_">>,
     <<"_","_","d","e","f","i","n","e","S","e","t","t","e","r","_","_">>,
     <<"_","_","l","o","o","k","u","p","G","e","t","t","e","r","_","_">>,
     <<"_","_","l","o","o","k","u","p","S","e","t","t","e","r","_","_">>}

\* a canonical array index: decimal digits without a leading zero (keys of
\* ten or more digits are not among the checked inputs)
IsArrayIndex(k) ==
    /\ Len(k) >= 1
    /\ Len(k) <= 9
    /\ \A i \in 1..Len(k) : k[i] \in Digits
    /\ (Len(k) = 1 \/ k[1] /= "0")

DigitValue(c) ==
    CASE c = "0" -> 0 [] c = "1" -> 1 [] c = "2" -> 2 [] c = "3" -> 3 [] c = "4" -> 4
      [] c = "5" -> 5 [] c = "6" -> 6 [] c = "7" -> 7 [] c = "8" -> 8 [] c = "9" -> 9

RECURSIVE IndexValue(_)
IndexValue(k) ==
    IF k = <<>> THEN 0
    ELSE 10 * IndexValue(SubSeq(k, 1, Len(k) - 1)) + DigitValue(k[Len(k)])

HasOwn(q, k) == \E i \in 1..Len(q) : q[i].key = k

\* q[k]
PropGet(q, k) ==
    IF HasOwn(q, k) THEN (CHOOSE e \in {q[i] : i \in 1..Len(q)} : e.key = k).val
    ELSE IF k \in ObjectPrototypeMethods THEN QFunction(k)
    ELSE QUndefined

\* the place a newly created key takes in the enumeration order
InsertAt(q, k) ==
    IF IsArrayIndex(k)
    THEN 1 + Cardinality({i \in 1..Len(q) :
                            IsArrayIndex(q[i].key) /\ IndexValue(q[i].key) < IndexValue(k)})
    ELSE Len(q) + 1

\* q[k] = v
PropSet(q, k, v) ==
    IF HasOwn(q, k)
    THEN [i \in 1..Len(q) |-> IF q[i].key = k THEN [key |-> k, val |-> v] ELSE q[i]]
    ELSE LET at == InsertAt(q, k)
         IN  SubSeq(q, 1, at - 1) \o <<[key |-> k, val |-> v]>> \o SubSeq(q, at, Len(q))

\* Object.keys(q)
ObjectKeys(q) == [i \in 1..Len(q) |-> q[i].key]

(***************************************************************************)
(* parseGenBank: the effect of one line on the feature being built         *)
(***************************************************************************)
\* let current = null
NoCurrent == [open |-> FALSE, key |-> <<>>, location |-> <<>>, qualifiers |-> <<>>]

\* current = { key: featMatch[1], location: featMatch[2].trim(), qualifiers: {} }
NewFeature(m) ==
    [open |-> TRUE, key |-> m.key, location |-> m.location, qualifiers |-> <<>>]

\* the object that result.features.push(current) stores
Committed(c) == [key |-> c.key, location |-> c.location, qualifiers |-> c.qualifiers]

\* variant: the feature is stored over the last one committed
PushCurrent_OverLast(fs, c) ==
    IF ~c.open THEN fs
    ELSE IF fs = <<>> THEN <<Committed(c)>>
    ELSE [fs EXCEPT ![Len(fs)] = Committed(c)]

\* variant: a feature without qualifiers is not stored
PushCurrent_OnlyQualified(fs, c) ==
    IF c.open /\ c.qualifiers /= <<>> THEN Append(fs, Committed(c)) ELSE fs

\* if (current) result.features.push(current)
PushCurrent(fs, c) == IF c.open THEN Append(fs, Committed(c)) ELSE fs

\* the three-way insertion of a qualifier value
InsertQualifier(q, k, v) ==
    LET old == PropGet(q, k)
    IN  IF old.tag = "undefined" THEN PropSet(q, k, v)
        ELSE IF old.tag = "array" THEN PropSet(q, k, QArr(Append(old.a, v)))
        ELSE PropSet(q, k, QArr(<<old, v>>))

\* what + ' ' + addition makes of an array element (a string or true)
ConcatToElement(e, addition) ==
    CASE e.tag = "string" -> QStr(e.s \o <<" ">> \o addition)
      [] e.tag = "true" -> QStr(<<"t","r","u","e">> \o <<" ">> \o addition)

\* variant: a continuation met before any qualifier starts a note
AppendContinuation_StartsNote(q, addition) ==
    IF q = <<>> THEN <<[key |-> <<"n","o","t","e">>, val |-> QStr(addition)]>>
    ELSE LET lastKey == ObjectKeys(q)[Len(q)]
             prev == PropGet(q, lastKey)
         IN  IF prev.tag = "string"
             THEN PropSet(q, lastKey, QStr(Trim(prev.s \o <<" ">> \o addition)))
             ELSE IF prev.tag = "array"
             THEN PropSet(q, lastKey,
                    QArr([i \in 1..Len(prev.a) |->
                            IF i = Len(prev.a) THEN ConcatToElement(prev.a[i], addition)
                            ELSE prev.a[i]]))
             ELSE q

\* variant: a continuation after a flag makes the flag a string
AppendContinuation_PromotesFlag(q, addition) ==
    IF q = <<>> THEN q
    ELSE LET lastKey == ObjectKeys(q)[Len(q)]
             prev == PropGet(q, lastKey)
         IN  IF prev.tag = "string"
             THEN PropSet(q, lastKey, QStr(Trim(prev.s \o <<" ">> \o addition)))
             ELSE IF prev.tag = "array"
             THEN PropSet(q, lastKey,
                    QArr([i \in 1..Len(prev.a) |->
                            IF i = Len(prev.a) THEN ConcatToElement(prev.a[i], addition)
                            ELSE prev.a[i]]))
             ELSE IF prev.tag = "true" THEN PropSet(q, lastKey, QStr(addition))
             ELSE q

\* the continuation branch: the target is the last key Object.keys lists
AppendContinuation(q, addition) ==
    IF q = <<>> THEN q
    ELSE LET lastKey == ObjectKeys(q)[Len(q)]
             prev == PropGet(q, lastKey)
         IN  IF prev.tag = "string"
             THEN PropSet(q, lastKey, QStr(Trim(prev.s \o <<" ">> \o addition)))
             ELSE IF prev.tag = "array"
             THEN PropSet(q, lastKey,
                    QArr([i \in 1..Len(prev.a) |->
                            IF i = Len(prev.a) THEN ConcatToElement(prev.a[i], addition)
                            ELSE prev.a[i]]))
             ELSE q

(***************************************************************************)
(* parseGenBank as a function of the text                                  *)
(***************************************************************************)
\* the body of lines.forEach for one line: st is (current, result.features)
ScanLine(st, line) ==
    IF FeatMatch(line).ok
    THEN [current |-> NewFeature(FeatMatch(line)),
          features |-> PushCurrent(st.features, st.current)]
    ELSE IF QualMatch(line).ok /\ st.current.open
    THEN [st EXCEPT !.current.qualifiers =
                       InsertQualifier(@, QualMatch(line).key, QualMatch(line).val)]
    ELSE IF ContMatch(line).ok /\ st.current.open
    THEN [st EXCEPT !.current.qualifiers = AppendContinuation(@, ContMatch(line).addition)]
    ELSE st

RECURSIVE ForEachLine(_, _)
\* lines.forEach over the first n lines
ForEachLine(ls, n) ==
    IF n = 0 THEN [current |-> NoCurrent, features |-> <<>>]
    ELSE ScanLine(ForEachLine(ls, n - 1), ls[n])

parseGenBank(t) ==
    IF FeaturesStart(t) = -1 THEN [locus |-> ExtractLocus(t), features |-> <<>>]
    ELSE LET ls == SplitLines(FeaturesText(t))
             st == ForEachLine(ls, Len(ls))
         IN  [locus |-> ExtractLocus(t), features |-> PushCurrent(st.features, st.current)]

(***************************************************************************)
(* Inputs                                                                  *)
(***************************************************************************)
Spaces(n) == [i \in 1..n |-> " "]

RECURSIVE JoinLines(_)
\* the lines, each ended by a newline
JoinLines(ls) == IF ls = <<>> THEN <<>> ELSE Head(ls) \o <<"\n">> \o JoinLines(Tail(ls))

SeqsUpTo(S, n) == UNION {[1..m -> S] : m \in 0..n}

\* free texts over a few tokens: detection, FASTA, the LOCUS line
Pieces == {LOCUS, <<">">>, <<" ">>, <<"\n">>, <<"A">>}
PieceTexts == {Concat(ps) : ps \in SeqsUpTo(Pieces, MaxPieces)}

LocusLine == LOCUS \o <<" ","x">>
FeatureLineG == Spaces(FeatIndent) \o <<"g"," ","1">>
FeatureLineC == Spaces(FeatIndent) \o <<"c"," "," ","2"," ">>
QualLineA == Spaces(QualIndent) \o <<"/","a","=","x">>
QualLineAQuoted == Spaces(QualIndent) \o <<"/","a","=","\"","y"," ","z","\"">>
QualLineB == Spaces(QualIndent) \o <<"/","b">>
QualLineDigit == Spaces(QualIndent) \o <<"/","1","=","n">>
QualLineValueOf == Spaces(QualIndent) \o <<"/","v","a","l","u","e","O","f","=","v">>
ContLine == Spaces(QualIndent) \o <<"w">>

\* GenBank texts that place the section markers freely
SectionLines ==
    {FEATURES, ORIGIN, <<"/","/">>, FeatureLineG, FeatureLineC, QualLineA, QualLineValueOf}
SectionTexts ==
    {JoinLines(<<LocusLine>> \o ls) : ls \in SeqsUpTo(SectionLines, MaxSectionLines)}

\* GenBank texts with one feature table: a feature, then qualifier traffic
ScanLines ==
    {FeatureLineG, QualLineA, QualLineAQuoted, QualLineB, QualLineDigit, ContLine}
ScanTexts ==
    {JoinLines(<<LocusLine, FEATURES, FeatureLineG>> \o ls) :
        ls \in SeqsUpTo(ScanLines, MaxQualLines)}

\* lines whose indentation or value part is off the usual layout
ContLineDeep == Spaces(QualIndent + 1) \o <<"w">>
SpaceLine == Spaces(QualIndent + 1)
FeatureLineDeep == Spaces(FeatIndent + 1) \o <<"g"," ","1">>
QualLineEmptyValue == Spaces(QualIndent) \o <<"/","c","=">>
QualLineUnclosed == Spaces(QualIndent) \o <<"/","c","=","\"","q">>

\* GenBank texts with a feature table whose lines are laid out freely
IndentLines ==
    {FeatureLineG, QualLineA, QualLineB, ContLine, ContLineDeep, SpaceLine,
     FeatureLineDeep, QualLineEmptyValue, QualLineUnclosed}
IndentTexts ==
    {JoinLines(<<LocusLine, FEATURES>> \o ls) : ls \in SeqsUpTo(IndentLines, MaxIndentLines)}

(***************************************************************************)
(* The component: what handleFile and the reader callbacks set             *)
(***************************************************************************)
\* the values of the parsed state: null, { fasta: data }, { genbank: data }
NoDocument == [locus |-> NoValue, features |-> <<>>]
NoParsed == [kind |-> "null", fasta |-> <<>>, genbank |-> NoDocument]
FastaData(data) == [kind |-> "fasta", fasta |-> data, genbank |-> NoDocument]
GenBankData(data) == [kind |-> "genbank", fasta |-> <<>>, genbank |-> data]

\* the messages handed to setError
DetectionFailedMessage == "Unknown or unsupported file format"
ReadFailedMessage == "Failed to read file"
FastaFailedMessage(message) == "Failed to parse FASTA: " \o message
GenBankFailedMessage(message) == "Failed to parse GenBank: " \o message

\* what a parser call does besides returning: nothing, or an exception of
\* the engine (such as a RangeError when memory or the stack runs out)
NotThrown == [raised |-> FALSE, message |-> ""]
Thrown(message) == [raised |-> TRUE, message |-> message]
ErrMessages == {"", "Maximum call stack size exceeded"}

\* variant: a text of unknown format is handed to parseFasta
onload_UnknownAsFasta(u, t, ex) ==
    LET f == detectFormat(t)
    IN  IF f = "genbank"
        THEN IF ex.raised
             THEN [u EXCEPT !.type = f, !.error = GenBankFailedMessage(ex.message)]
             ELSE [u EXCEPT !.type = f, !.parsed = GenBankData(parseGenBank(t))]
        ELSE IF ex.raised
             THEN [u EXCEPT !.type = f, !.error = FastaFailedMessage(ex.message)]
             ELSE [u EXCEPT !.type = f, !.parsed = FastaData(parseFasta(t))]

\* reader.onload with reader.result = t: u is (type, parsed, error) before
\* the callback, ex what the parser call raises
onload(u, t, ex) ==
    LET f == detectFormat(t)
    IN  IF f = "fasta"
        THEN IF ex.raised
             THEN [u EXCEPT !.type = f, !.error = FastaFailedMessage(ex.message)]
             ELSE [u EXCEPT !.type = f, !.parsed = FastaData(parseFasta(t))]
        ELSE IF f = "genbank"
        THEN IF ex.raised
             THEN [u EXCEPT !.type = f, !.error = GenBankFailedMessage(ex.message)]
             ELSE [u EXCEPT !.type = f, !.parsed = GenBankData(parseGenBank(t))]
        ELSE [u EXCEPT !.type = f, !.error = DetectionFailedMessage]

\* the files the user can pick
Files ==
    {[name |-> "a.fa", text |-> <<">","A","\n","A","\n">>],
     [name |-> "b.gb", text |-> JoinLines(<<LocusLine, FEATURES, FeatureLineG, QualLineA>>)],
     [name |-> "c.txt", text |-> <<"A">>]}

(***************************************************************************)
(* State machine.  text is the string handed to reader.onload; pc is the   *)
(* position in handleFile's onload callback and in the parser it calls.    *)
(***************************************************************************)
NoReparse == [of |-> 0, width |-> 0, input |-> <<>>, out |-> <<>>]

InitWith(texts) ==
    /\ text \in texts
    /\ pc = "loaded"
    /\ fmt = ""
    /\ records = <<>>
    /\ reparsed = NoReparse
    /\ locus = NoValue
    /\ lines = <<>>
    /\ idx = 0
    /\ current = NoCurrent
    /\ features = <<>>
    /\ filename = ""
    /\ type = ""
    /\ parsed = NoParsed
    /\ error = ""
    /\ reads = <<>>

\* const fmt = detectFormat(text)
Detect ==
    /\ pc = "loaded"
    /\ fmt' = detectFormat(text)
    /\ pc' = "detected"
    /\ UNCHANGED <<ui, text, records, reparsed, locus, lines, idx, current, features>>

\* fmt === 'fasta': const data = parseFasta(text)
ParseFasta ==
    /\ pc = "detected"
    /\ fmt = "fasta"
    /\ records' = parseFasta(text)
    /\ pc' = "fasta_done"
    /\ UNCHANGED <<ui, text, fmt, reparsed, locus, lines, idx, current, features>>

\* fmt === 'genbank': parseGenBank up to the line loop
BeginGenBank ==
    /\ pc = "detected"
    /\ fmt = "genbank"
    /\ locus' = ExtractLocus(text)
    /\ features' = <<>>
    /\ current' = NoCurrent
    /\ IF FeaturesStart(text) = -1
       THEN /\ lines' = <<>>
            /\ idx' = 0
            /\ pc' = "genbank_done"
       ELSE /\ lines' = SplitLines(FeaturesText(text))
            /\ idx' = 1
            /\ pc' = "scan"
    /\ UNCHANGED <<ui, text, fmt, records, reparsed>>

Scanning == pc = "scan" /\ idx <= Len(lines)

\* if (featMatch) { if (current) result.features.push(current); current = {...}; return }
ScanFeatureLine ==
    /\ Scanning
    /\ FeatMatch(lines[idx]).ok
    /\ features' = PushCurrent(features, current)
    /\ current' = NewFeature(FeatMatch(lines[idx]))
    /\ idx' = idx + 1
    /\ UNCHANGED <<ui, text, pc, fmt, records, reparsed, locus, lines>>

\* if (qualMatch && current) { ...; return }
ScanQualifierLine ==
    /\ Scanning
    /\ ~FeatMatch(lines[idx]).ok
    /\ QualMatch(lines[idx]).ok /\ current.open
    /\ current' = [current EXCEPT !.qualifiers =
                     InsertQualifier(@, QualMatch(lines[idx]).key, QualMatch(lines[idx]).val)]
    /\ idx' = idx + 1
    /\ UNCHANGED <<ui, text, pc, fmt, records, reparsed, locus, lines, features>>

\* if (contMatch && current) { ...; return }
ScanContinuationLine ==
    /\ Scanning
    /\ ~FeatMatch(lines[idx]).ok
    /\ ~(QualMatch(lines[idx]).ok /\ current.open)
    /\ ContMatch(lines[idx]).ok /\ current.open
    /\ current' = [current EXCEPT !.qualifiers =
                     AppendContinuation(@, ContMatch(lines[idx]).addition)]
    /\ idx' = idx + 1
    /\ UNCHANGED <<ui, text, pc, fmt, records, reparsed, locus, lines, features>>

\* a line none of the three branches takes
ScanOtherLine ==
    /\ Scanning
    /\ ~FeatMatch(lines[idx]).ok
    /\ ~(QualMatch(lines[idx]).ok /\ current.open)
    /\ ~(ContMatch(lines[idx]).ok /\ current.open)
    /\ idx' = idx + 1
    /\ UNCHANGED <<ui, text, pc, fmt, records, reparsed, locus, lines, current, features>>

\* after forEach: if (current) result.features.push(current); return result
FinishGenBank ==
    /\ pc = "scan"
    /\ idx > Len(lines)
    /\ features' = PushCurrent(features, current)
    /\ pc' = "genbank_done"
    /\ UNCHANGED <<ui, text, fmt, records, reparsed, locus, lines, idx, current>>

(***************************************************************************)
(* Re-parsing a record written back as FASTA text                          *)
(***************************************************************************)
RECURSIVE Wrap(_, _)
\* the sequence in lines of w characters, each ended by a newline
Wrap(sq, w) ==
    IF sq = <<>> THEN <<>>
    ELSE SubSeq(sq, 1, Min(w, Len(sq))) \o <<"\n">> \o Wrap(SubSeq(sq, w + 1, Len(sq)), w)

\* '>' + header + newline + the wrapped sequence
FastaText(r, w) == <<">">> \o r.header \o <<"\n">> \o Wrap(r.sequence, w)

\* parseFasta applied to the text written from the i-th record at width w
Reparse ==
    /\ pc = "fasta_done"
    /\ \E i \in 1..Len(records), w \in 1..MaxWrap :
          reparsed' = [of |-> i, width |-> w, input |-> FastaText(records[i], w),
                       out |-> parseFasta(FastaText(records[i], w))]
    /\ pc' = "reparsed"
    /\ UNCHANGED <<ui, text, fmt, records, locus, lines, idx, current, features>>

(***************************************************************************)
(* handleFile and the callbacks of the readers it starts.  reads lists the *)
(* calls of handleFile in order: the file picked, and how far its read is  *)
(* (none: no file was picked; pending, loaded, failed).                    *)
(***************************************************************************)
parser == <<text, pc, fmt, records, reparsed, locus, lines, idx, current, features>>

\* handleFile with e.target.files[0] = f: reset, setFilename, readAsText
HandleFile ==
    /\ Len(reads) < MaxSelections
    /\ \E f \in Files :
          /\ filename' = f.name
          /\ reads' = Append(reads, [name |-> f.name, text |-> f.text,
                                     status |-> "pending", ex |-> NotThrown])
    /\ error' = ""
    /\ parsed' = NoParsed
    /\ UNCHANGED <<type, parser>>

\* handleFile with no file picked: reset, then if (!file) return
HandleFileNoFile ==
    /\ Len(reads) < MaxSelections
    /\ error' = ""
    /\ parsed' = NoParsed
    /\ reads' = Append(reads, [name |-> "", text |-> <<>>, status |-> "none", ex |-> NotThrown])
    /\ UNCHANGED <<filename, type, parser>>

\* reader.onload of a pending read; only a parser call can raise
ReaderLoads ==
    /\ \E i \in 1..Len(reads) :
          /\ reads[i].status = "pending"
          /\ \E ex \in IF detectFormat(reads[i].text) = "unknown" THEN {NotThrown}
                        ELSE {NotThrown} \cup {Thrown(m) : m \in ErrMessages} :
                LET u == onload([type |-> type, parsed |-> parsed, error |-> error],
                                reads[i].text, ex)
                IN  /\ type' = u.type
                    /\ parsed' = u.parsed
                    /\ error' = u.error
                    /\ reads' = [reads EXCEPT ![i].status = "loaded", ![i].ex = ex]
    /\ UNCHANGED <<filename, parser>>

\* reader.onerror of a pending read
ReaderFails ==
    /\ \E i \in 1..Len(reads) :
          /\ reads[i].status = "pending"
          /\ reads' = [reads EXCEPT ![i].status = "failed"]
    /\ error' = ReadFailedMessage
    /\ UNCHANGED <<filename, type, parsed, parser>>

(***************************************************************************)
(* Specifications                                                          *)
(***************************************************************************)
GenBankTexts == PieceTexts \cup SectionTexts \cup ScanTexts \cup IndentTexts

NextFasta == Detect \/ ParseFasta \/ Reparse

NextGenBank ==
    \/ Detect
    \/ BeginGenBank
    \/ ScanFeatureLine
    \/ ScanQualifierLine
    \/ ScanContinuationLine
    \/ ScanOtherLine
    \/ FinishGenBank

\* detection and the FASTA path over the free texts
SpecFasta == InitWith(PieceTexts) /\ [][NextFasta]_vars

\* detection and the GenBank path over the free and the GenBank texts
SpecGenBank == InitWith(GenBankTexts) /\ [][NextGenBank]_vars

\* the component: file selections and the completions of their reads
NextUI == HandleFile \/ HandleFileNoFile \/ ReaderLoads \/ ReaderFails

SpecUI == InitWith({<<>>}) /\ [][NextUI]_vars

Init == InitWith(GenBankTexts)

Next == NextFasta \/ NextGenBank \/ NextUI

Spec == Init /\ [][Next]_vars

(***************************************************************************)
(* Properties: detection and FASTA (checked under SpecFasta)               *)
(***************************************************************************)
StartsWith(l, lit) == Len(l) >= Len(lit) /\ SubSeq(l, 1, Len(lit)) = lit

\* some line of s begins with lit
SomeLineBegins(s, lit) ==
    \E p \in 1..(Len(s) - Len(lit) + 1) :
        /\ p = 1 \/ s[p - 1] = "\n"
        /\ SubSeq(s, p, p + Len(lit) - 1) = lit

NonBlank(c) == Trim(c) /= <<>>

\* C3: detectFormat answers 'genbank' whenever a line of the untrimmed text
\* begins with LOCUS (a '>' line elsewhere notwithstanding), otherwise 'fasta'
\* whenever a line of the trimmed text begins with '>', otherwise 'unknown'.
C3_DetectFormat ==
    pc /= "loaded" =>
        fmt = IF SomeLineBegins(text, LOCUS) THEN "genbank"
              ELSE IF SomeLineBegins(Trim(text), <<">">>) THEN "fasta"
              ELSE "unknown"

\* a text with a LOCUS line and a '>' line, classified
C3_Witness ==
    /\ pc = "detected"
    /\ fmt = "genbank"
    /\ SomeLineBegins(text, LOCUS)
    /\ SomeLineBegins(Trim(text), <<">">>)

\* C2: parseFasta returns as many records as there are '>'-initiated chunks
\* that are non-empty after trimming (the text before the first '>' line gives
\* no record), and each record's length is the length of its sequence, which
\* holds no whitespace.
C2_RecordCount ==
    pc = "fasta_done" =>
        /\ Len(records) = Len(SelectSeq(Tail(SplitGt(text)), NonBlank))
        /\ \A i \in 1..Len(records) :
              /\ records[i].length = Len(records[i].sequence)
              /\ \A j \in 1..Len(records[i].sequence) : ~IsSpace(records[i].sequence[j])

\* C8: the i-th record comes from the i-th retained chunk; its header is the
\* trimmed first line of that chunk (the text of the '>' line, empty or not)
\* and its sequence is the rest of the chunk's lines joined, whitespace removed.
C8_HeaderAndSequence ==
    pc = "fasta_done" =>
        LET kept == SelectSeq(SplitGt(text), NonBlank)
        IN  /\ Len(records) = Len(kept)
            /\ \A i \in 1..Len(records) :
                  /\ records[i].header = Trim(Head(SplitLines(kept[i])))
                  /\ records[i].sequence = StripSpace(Concat(Tail(SplitLines(kept[i]))))

\* the record that was written back, and what came out
ReparsedRecord == records[reparsed.of]
RoundTrips ==
    /\ Len(reparsed.out) = 1
    /\ reparsed.out[1].header = ReparsedRecord.header
    /\ reparsed.out[1].sequence = ReparsedRecord.sequence

\* C9 as stated: every record, rewrapped at any width and parsed again, gives
\* exactly one record with the same header and the same sequence.
C9_RoundTripAnyRecord == pc = "reparsed" => RoundTrips

\* no line of the wrapped sequence begins with '>'
NoWrappedLineBeginsWithGt(sq, w) ==
    \A j \in 1..Len(sq) : (j - 1) % w = 0 => sq[j] /= ">"

\* C9 (amended): every record whose sequence, broken into lines of w
\* characters, has no line beginning with '>' gives, written back and parsed
\* again, exactly one record with the same header and the same sequence.
C9_RoundTrip ==
    (pc = "reparsed" /\ NoWrappedLineBeginsWithGt(ReparsedRecord.sequence, reparsed.width))
        => RoundTrips

\* a sequence wrapped over two lines or more came back whole
C9_Witness ==
    /\ pc = "reparsed"
    /\ Len(ReparsedRecord.sequence) > reparsed.width
    /\ NoWrappedLineBeginsWithGt(ReparsedRecord.sequence, reparsed.width)
    /\ RoundTrips

(***************************************************************************)
(* Properties: parseGenBank (checked under SpecGenBank)                    *)
(***************************************************************************)
InGenBank == pc \in {"scan", "genbank_done"}

\* the lines of the text, and the 1-based offset at which the i-th begins
TextLines == SplitLines(text)
RECURSIVE LineOffset(_, _)
LineOffset(ls, i) == IF i <= 1 THEN 1 ELSE LineOffset(ls, i - 1) + Len(ls[i - 1]) + 1

FirstIn(S) == CHOOSE i \in S : \A j \in S : i <= j
LastIn(S) == CHOOSE i \in S : \A j \in S : i >= j

\* C5: locus is the first line that begins with LOCUS, whole and trimmed (that
\* line only), and is null exactly when no line begins with LOCUS.
C5_LocusLine ==
    InGenBank =>
        LET hits == {i \in 1..Len(TextLines) : StartsWith(TextLines[i], LOCUS)}
        IN  locus = IF hits = {} THEN NoValue
                    ELSE StrValue(Trim(TextLines[FirstIn(hits)]))

\* the feature-table slice as the claim draws it: from the first FEATURES line
\* to the first ORIGIN line after it, else to the first '//' line after it,
\* else to the end of the text
ClaimedSlice ==
    LET ls == TextLines
        f  == FirstIn({i \in 1..Len(ls) : StartsWith(ls[i], FEATURES)})
        os == {i \in (f + 1)..Len(ls) : StartsWith(ls[i], ORIGIN)}
        es == {i \in (f + 1)..Len(ls) : ls[i] = <<"/","/">>}
        stop == IF os /= {} THEN LineOffset(ls, FirstIn(os)) - 1
                ELSE IF es /= {} THEN LineOffset(ls, FirstIn(es)) - 1
                ELSE Len(text)
    IN  SubSeq(text, LineOffset(ls, f), stop)

\* C4: when a FEATURES line exists, the lines that are scanned are those of
\* the slice from the first FEATURES line to the boundary (exclusive), wherever
\* the ORIGIN and '//' lines stand.  (The newline that ends the slice may or
\* may not be part of what is scanned.)
C4_SectionSlice ==
    (InGenBank /\ SomeLineBegins(text, FEATURES)) =>
        \/ lines = SplitLines(ClaimedSlice)
        \/ Append(lines, <<>>) = SplitLines(ClaimedSlice)

\* the lines scanned so far, and among them those of the feature now open
Seen == idx - 1
FeatureLinesIn(n) == {i \in 1..n : FeatMatch(lines[i]).ok}
CurrentFrom == IF FeatureLinesIn(Seen) = {} THEN 0 ELSE LastIn(FeatureLinesIn(Seen))
QualLinesOfCurrent ==
    IF CurrentFrom = 0 THEN {}
    ELSE {i \in (CurrentFrom + 1)..Seen : QualMatch(lines[i]).ok}

\* the line at idx is taken by the continuation branch
AtContinuation ==
    /\ Scanning
    /\ current.open
    /\ ~FeatMatch(lines[idx]).ok
    /\ ~QualMatch(lines[idx]).ok
    /\ ContMatch(lines[idx]).ok

\* the line at idx is taken by the qualifier branch
AtQualifier ==
    /\ Scanning
    /\ current.open
    /\ ~FeatMatch(lines[idx]).ok
    /\ QualMatch(lines[idx]).ok

OtherKeysKept(k) ==
    /\ ObjectKeys(current'.qualifiers) = ObjectKeys(current.qualifiers)
    /\ \A i \in 1..Len(current.qualifiers) :
          current.qualifiers[i].key /= k => current'.qualifiers[i] = current.qualifiers[i]

\* C1: a continuation line appends its trimmed text, after one space, to the
\* value of the key of the most recent qualifier-start line of the current
\* feature (to the last element when that value is a Multi), and changes no
\* other key's value.
C1_ContinuationTarget ==
    [][(AtContinuation /\ QualLinesOfCurrent /= {} /\ idx' = idx + 1) =>
         LET k   == QualMatch(lines[LastIn(QualLinesOfCurrent)]).key
             add == ContMatch(lines[idx]).addition
             old == PropGet(current.qualifiers, k)
             new == PropGet(current'.qualifiers, k)
         IN  /\ OtherKeysKept(k)
             /\ old.tag = "string" => new = QStr(old.s \o <<" ">> \o add)
             /\ (old.tag = "array" /\ old.a[Len(old.a)].tag = "string") =>
                   new = QArr([old.a EXCEPT ![Len(old.a)] = QStr(@.s \o <<" ">> \o add)])
      ]_vars

\* C6: the first qualifier-start line of a key in a feature stores a single
\* Scalar or Flag value; each further one turns the stored value into a Multi
\* of the earlier value(s) followed by the new one, or extends the Multi.
C6_Promotion ==
    [][(AtQualifier /\ idx' = idx + 1) =>
         LET k    == QualMatch(lines[idx]).key
             v    == QualMatch(lines[idx]).val
             seen == \E i \in QualLinesOfCurrent : QualMatch(lines[i]).key = k
             old  == PropGet(current.qualifiers, k)
             new  == PropGet(current'.qualifiers, k)
         IN  IF ~seen THEN new = v /\ new.tag \in {"string", "true"}
             ELSE IF old.tag = "array" THEN new = QArr(Append(old.a, v))
             ELSE new = QArr(<<old, v>>)
      ]_vars

RECURSIVE FirstSeenKeys(_, _)
\* the keys of the qualifier-start lines lo..hi, each at its first appearance
FirstSeenKeys(lo, hi) ==
    IF hi < lo THEN <<>>
    ELSE LET before == FirstSeenKeys(lo, hi - 1)
             k == QualMatch(lines[hi]).key
         IN  IF QualMatch(lines[hi]).ok /\ ~FeatMatch(lines[hi]).ok
                /\ ~\E i \in 1..Len(before) : before[i] = k
             THEN Append(before, k) ELSE before

\* C10: the keys of a feature's qualifiers enumerate in the order in which
\* each first appeared on a qualifier-start line of that feature.
C10_FirstSeenOrder ==
    (InGenBank /\ current.open) =>
        ObjectKeys(current.qualifiers) = FirstSeenKeys(CurrentFrom + 1, Seen)

\* a feature-start line as the format describes it: five spaces, a key without
\* whitespace, whitespace, the location
KeyEnd(l) == FirstIn({j \in (FeatIndent + 1)..Len(l) : IsSpace(l[j])}) - 1
IsFeatureStartLine(l) ==
    /\ Len(l) > FeatIndent
    /\ \A i \in 1..FeatIndent : l[i] = " "
    /\ l[FeatIndent + 1] /= " "
    /\ \E j \in (FeatIndent + 2)..(Len(l) - 1) : IsSpace(l[j])
FeatureOfLine(l) ==
    [key |-> SubSeq(l, FeatIndent + 1, KeyEnd(l)),
     location |-> Trim(SubSeq(l, KeyEnd(l) + 1, Len(l)))]

RECURSIVE FeatureStartsIn(_)
\* key and location of the feature-start lines among the first n scanned lines
FeatureStartsIn(n) ==
    IF n = 0 THEN <<>>
    ELSE IF IsFeatureStartLine(lines[n])
         THEN Append(FeatureStartsIn(n - 1), FeatureOfLine(lines[n]))
         ELSE FeatureStartsIn(n - 1)

KeyAndLocation(fs) == [i \in 1..Len(fs) |-> [key |-> fs[i].key, location |-> fs[i].location]]

\* C7: during the scan the committed features are the feature-start lines met
\* so far but the last, in order, and the open feature is the last one; once
\* the last line is processed the committed features are all of them.  Each
\* has the key and the trimmed location of its line.
C7_OneFeaturePerLine ==
    /\ pc = "scan" =>
          LET starts == FeatureStartsIn(Seen)
          IN  /\ current.open = (starts /= <<>>)
              /\ current.open =>
                    /\ KeyAndLocation(features) = SubSeq(starts, 1, Len(starts) - 1)
                    /\ [key |-> current.key, location |-> current.location]
                          = starts[Len(starts)]
              /\ ~current.open => features = <<>>
    /\ pc = "genbank_done" => KeyAndLocation(features) = FeatureStartsIn(Len(lines))

\* two features with different keys came out, in the order of their lines
C7_Witness ==
    /\ pc = "genbank_done"
    /\ Len(features) >= 2
    /\ \E i \in 1..(Len(features) - 1) : features[i].key /= features[i + 1].key
    /\ \E i \in 1..Len(features) : features[i].qualifiers /= <<>>

(***************************************************************************)
(* Properties: FASTA records without sequence, detector and splitter       *)
(***************************************************************************)
\* the j-th piece of the split is a single non-blank line: the header line of
\* a '>' that is followed at once by the next '>' line or by the end of text
HeaderOnly(c) == NonBlank(c) /\ \A i \in 1..(Len(c) - 1) : c[i] /= "\n"
KeptUpTo(t, j) == Cardinality({i \in 1..j : NonBlank(SplitGt(t)[i])})

\* C14: a record whose non-empty header line is followed at once by another
\* '>' line or by the end of the text is emitted, in its place among the
\* records, with the trimmed header, the empty sequence and length 0.
C14_HeaderOnlyRecord ==
    pc = "fasta_done" =>
        \A j \in 2..Len(SplitGt(text)) :
            HeaderOnly(SplitGt(text)[j]) =>
                /\ KeptUpTo(text, j) <= Len(records)
                /\ records[KeptUpTo(text, j)] =
                      [header |-> Trim(SplitGt(text)[j]), sequence |-> <<>>, length |-> 0]

\* two header-only records came out: the first is followed at once by a '>'
\* line, the second by the end of the text
C14_Witness ==
    /\ pc = "fasta_done"
    /\ Len(SplitGt(text)) = 3
    /\ ~NonBlank(SplitGt(text)[1])
    /\ HeaderOnly(SplitGt(text)[2])
    /\ HeaderOnly(SplitGt(text)[3])
    /\ Len(records) = 2
    /\ records[1] = [header |-> <<"A">>, sequence |-> <<>>, length |-> 0]
    /\ records[2] = [header |-> <<"A">>, sequence |-> <<>>, length |-> 0]

\* the '>' the detector found at the start of the trimmed text is still there
\* as the first character of the first header: the text before it was blank
\* but not empty, so the splitter did not see it at the start of a line
HeaderKeepsDelimiter ==
    /\ StartsWith(Trim(text), <<">">>)
    /\ NonBlank(SplitGt(text)[1])
    /\ Len(records) >= 1
    /\ StartsWith(records[1].header, <<">">>)

\* C19: for a text that detectFormat classifies as fasta, parseFasta applied
\* to the same untrimmed text returns at least one record, and no header
\* begins with the '>' that delimited its record.
C19_DetectorAndSplitterAgree ==
    (pc = "fasta_done" /\ fmt = "fasta") =>
        /\ Len(records) >= 1
        /\ ~HeaderKeepsDelimiter

(***************************************************************************)
(* Properties: indentation and the parts of parseGenBank                   *)
(***************************************************************************)
\* the number of space characters a line begins with
LeadingSpaces(l) == Cardinality({n \in 1..Len(l) : \A i \in 1..n : l[i] = " "})
IsBlankLine(l) == \A i \in 1..Len(l) : IsSpace(l[i])

\* the step that processes the line at idx leaves the feature being built and
\* the committed features as they are
LineIsInert == current' = current /\ features' = features

\* C11: indentation is matched exactly: a line whose indentation is neither
\* the five spaces of a feature-start line nor the twenty-one spaces of a
\* qualifier-start or continuation line, and a blank line, leave the current
\* feature, its qualifiers and the committed features unchanged.
C11_ExactIndentation ==
    [][(Scanning /\ idx' = idx + 1
          /\ (LeadingSpaces(lines[idx]) \notin {FeatIndent, QualIndent}
                \/ IsBlankLine(lines[idx])))
         => LineIsInert]_vars

\* C12: for a text with no line beginning with FEATURES, parseGenBank is done
\* at once, without scanning a line: its features are the empty sequence and
\* its locus is whatever the LOCUS search found.
C12_NoFeaturesSection ==
    (InGenBank /\ ~SomeLineBegins(text, FEATURES)) =>
        /\ pc = "genbank_done"
        /\ features = <<>>
        /\ lines = <<>>
        /\ locus = ExtractLocus(text)

\* a text with a LOCUS line and a feature line, but no FEATURES line, was parsed
C12_Witness ==
    /\ pc = "genbank_done"
    /\ ~SomeLineBegins(text, FEATURES)
    /\ SomeLineBegins(text, FeatureLineG)
    /\ locus = StrValue(LocusLine)
    /\ features = <<>>

(***************************************************************************)
(* Properties: the component (checked under SpecUI)                        *)
(***************************************************************************)
\* C13: one file selection whose read completes ends in exactly one outcome:
\* detected fasta gives the parseFasta records and no error; detected genbank
\* gives the parseGenBank document and no error; unknown gives the
\* detection-failed error and no parsed data; an exception raised in a parser
\* gives the parse-failed error carrying its message and no parsed data; a
\* read failure gives the read-failed error.  The error tells the three
\* failures apart, and an unknown text reaches no parser.
C13_OneOutcome ==
    [][(Len(reads) = 1 /\ reads[1].status = "pending"
          /\ Len(reads') = 1 /\ reads'[1].status /= "pending") =>
         LET t == reads[1].text
             r == reads'[1]
             f == detectFormat(t)
             loaded == r.status = "loaded"
         IN  /\ (loaded /\ ~r.ex.raised /\ f = "fasta") =>
                    (parsed' = FastaData(parseFasta(t)) /\ error' = "")
             /\ (loaded /\ ~r.ex.raised /\ f = "genbank") =>
                    (parsed' = GenBankData(parseGenBank(t)) /\ error' = "")
             /\ (loaded /\ f = "unknown") =>
                    (~r.ex.raised /\ parsed' = NoParsed /\ error' = DetectionFailedMessage)
             /\ (loaded /\ r.ex.raised /\ f = "fasta") =>
                    (parsed' = NoParsed /\ error' = FastaFailedMessage(r.ex.message))
             /\ (loaded /\ r.ex.raised /\ f = "genbank") =>
                    (parsed' = NoParsed /\ error' = GenBankFailedMessage(r.ex.message))
             /\ r.status = "failed" => (parsed' = NoParsed /\ error' = ReadFailedMessage)
             /\ (error' = "") = (loaded /\ ~r.ex.raised /\ f /= "unknown")
             /\ (error' = DetectionFailedMessage) = (loaded /\ f = "unknown")
             /\ (error' = ReadFailedMessage) = (r.status = "failed")]_vars

\* a sole read was loaded, the GenBank parser raised, and the error carries the
\* cause while no parsed data is shown
C13_Witness ==
    /\ Len(reads) = 1
    /\ reads[1].status = "loaded"
    /\ reads[1].ex.raised
    /\ parsed = NoParsed
    /\ error = GenBankFailedMessage("Maximum call stack size exceeded")

\* what follows the key of a qualifier-start line, and what follows its '='
AfterKey(l) ==
    SubSeq(l, QualIndent + 2 + RunLen(l, QualIndent + 2, "key"), Len(l))
HasEquals(l) == AfterKey(l) /= <<>> /\ AfterKey(l)[1] = "="
AfterEquals(l) == Tail(AfterKey(l))
\* the value part opens with '"' and a later '"' closes it
NextQuote(v) == FirstIn({i \in 2..Len(v) : v[i] = "\""})
IsQuoted(v) == v /= <<>> /\ v[1] = "\"" /\ \E i \in 2..Len(v) : v[i] = "\""
BetweenQuotes(v) == SubSeq(v, 2, NextQuote(v) - 1)
\* the run of non-whitespace characters the value part begins with
FirstToken(v) ==
    SubSeq(v, 1, Cardinality({n \in 1..Len(v) : \A i \in 1..n : ~IsSpace(v[i])}))

\* the value the qualifier branch has just stored for the key of the line at
\* idx: the value itself, or the last element when the key holds a Multi
InsertedValue ==
    LET v == PropGet(current'.qualifiers, QualMatch(lines[idx]).key)
    IN  IF v.tag = "array" THEN v.a[Len(v.a)] ELSE v

\* C15 as claimed: the value inserted for a qualifier-start line is the Flag
\* marker if and only if no '=' follows the key; after '=' and a double-quoted
\* string it is the text between the quotes; after '=' and an unquoted token
\* it is that token.
C15_FlagIffNoEquals ==
    [][(AtQualifier /\ idx' = idx + 1) =>
         LET l == lines[idx]
         IN  /\ (InsertedValue = QTrue) = ~HasEquals(l)
             /\ (HasEquals(l) /\ IsQuoted(AfterEquals(l))) =>
                    InsertedValue = QStr(BetweenQuotes(AfterEquals(l)))
             /\ (HasEquals(l) /\ ~IsQuoted(AfterEquals(l))
                   /\ FirstToken(AfterEquals(l)) /= <<>>) =>
                    InsertedValue = QStr(FirstToken(AfterEquals(l)))]_vars

\* C15, amended: the inserted value is the Flag marker if and only if no
\* value follows the key: there is no '=', or the '=' is followed by the end
\* of the line or by whitespace.  After '=' and a double-quoted string it is
\* the text between the quotes; after '=' and any other non-whitespace
\* character (an unclosed quote included) it is the run of non-whitespace
\* characters after the '='.
C15_FlagIffNoValue ==
    [][(AtQualifier /\ idx' = idx + 1) =>
         LET l == lines[idx]
             noValue == ~HasEquals(l) \/ FirstToken(AfterEquals(l)) = <<>>
         IN  /\ (InsertedValue = QTrue) = noValue
             /\ (HasEquals(l) /\ IsQuoted(AfterEquals(l))) =>
                    InsertedValue = QStr(BetweenQuotes(AfterEquals(l)))
             /\ (~noValue /\ ~IsQuoted(AfterEquals(l))) =>
                    InsertedValue = QStr(FirstToken(AfterEquals(l)))]_vars

\* a qualifier line ending in '=' has just been stored as a Flag, after a
\* qualifier with a value
C15_Witness ==
    /\ pc = "scan"
    /\ idx > 2
    /\ lines[idx - 2] = QualLineA
    /\ lines[idx - 1] = QualLineEmptyValue
    /\ current.open
    /\ current.qualifiers = <<[key |-> <<"a">>, val |-> QStr(<<"x">>)],
                              [key |-> <<"c">>, val |-> QTrue]>>

\* the two kinds of line indented by twenty-one spaces: '/' and a key
\* character follow, or some other content does
IsQualifierStartLine(l) ==
    /\ Len(l) >= QualIndent + 2
    /\ \A i \in 1..QualIndent : l[i] = " "
    /\ l[QualIndent + 1] = "/"
    /\ l[QualIndent + 2] \in KeyChars
IsContinuationLine(l) ==
    /\ Len(l) > QualIndent
    /\ \A i \in 1..QualIndent : l[i] = " "
    /\ ~IsQualifierStartLine(l)

\* C16: while no feature is open, a qualifier-start line and a continuation
\* line leave the committed features and the current feature unchanged; while
\* a feature is open that has no qualifier yet, a continuation line does.
C16_NothingToAttachTo ==
    [][(Scanning /\ idx' = idx + 1) =>
         /\ (~current.open
               /\ (IsQualifierStartLine(lines[idx]) \/ IsContinuationLine(lines[idx])))
               => LineIsInert
         /\ (current.open /\ current.qualifiers = <<>> /\ IsContinuationLine(lines[idx]))
               => LineIsInert]_vars

\* a qualifier-start line was met before any feature, and a continuation line
\* right after the feature-start line: nothing is committed and the feature
\* has no qualifier
C16_Witness ==
    /\ pc = "scan"
    /\ idx > 3
    /\ lines[idx - 3] = QualLineA
    /\ lines[idx - 2] = FeatureLineG
    /\ lines[idx - 1] = ContLine
    /\ features = <<>>
    /\ current = NewFeature(FeatMatch(FeatureLineG))

\* the key of the most recent qualifier-start line of the current feature,
\* when the line at idx is a continuation and that key holds a Flag
ContinuationAfterFlag ==
    /\ AtContinuation
    /\ QualLinesOfCurrent /= {}
    /\ PropGet(current.qualifiers, QualMatch(lines[LastIn(QualLinesOfCurrent)]).key) = QTrue
    /\ idx' = idx + 1
FlagKey == QualMatch(lines[LastIn(QualLinesOfCurrent)]).key

\* C17 as claimed: a continuation line after a Flag-valued qualifier that is
\* the most recently inserted one turns the value into a Scalar holding only
\* the continuation's trimmed text.
C17_FlagPromoted ==
    [][ContinuationAfterFlag =>
         PropGet(current'.qualifiers, FlagKey) = QStr(Trim(lines[idx]))]_vars

\* C17, amended: a continuation line after a Flag-valued qualifier that is
\* the most recently inserted one leaves the value the Flag marker; the
\* continuation's text is not stored in it.
C17_FlagKept ==
    [][ContinuationAfterFlag => PropGet(current'.qualifiers, FlagKey) = QTrue]_vars

\* a continuation line has just been processed after the flag /b, which is
\* still a Flag
C17_Witness ==
    /\ pc = "scan"
    /\ idx > 2
    /\ lines[idx - 2] = QualLineB
    /\ lines[idx - 1] = ContLine
    /\ current.open
    /\ PropGet(current.qualifiers, <<"b">>) = QTrue

\* C18: a committed feature is never changed again: every step of the scan
\* keeps the features committed so far as a prefix of the committed features,
\* and a qualifier-start or continuation line changes nothing but the
\* qualifiers of the feature opened by the most recent feature-start line.
C18_CommittedFrozen ==
    [][pc = "scan" =>
         /\ Len(features') >= Len(features)
         /\ SubSeq(features', 1, Len(features)) = features
         /\ ((AtQualifier \/ AtContinuation) /\ idx' = idx + 1) =>
               /\ features' = features
               /\ current'.key = current.key
               /\ current'.location = current.location
               /\ current'.open]_vars

\* a feature with a qualifier is committed, and a qualifier line of the next
\* feature has just been processed
C18_Witness ==
    /\ pc = "scan"
    /\ idx > 1
    /\ QualMatch(lines[idx - 1]).ok
    /\ current.open
    /\ current.qualifiers /= <<>>
    /\ Len(features) >= 1
    /\ features[1].qualifiers /= <<>>
    /\ features[1].qualifiers /= current.qualifiers

\* every read has completed, and the last call of handleFile picked a file
AllReadsDone ==
    /\ reads /= <<>>
    /\ reads[Len(reads)].status /= "none"
    /\ \A i \in 1..Len(reads) : reads[i].status /= "pending"
LastRead == reads[Len(reads)]

\* what the completion of read r sets, starting from handleFile's reset
OutcomeOf(r) ==
    IF r.status = "failed"
    THEN [type |-> "", parsed |-> NoParsed, error |-> ReadFailedMessage]
    ELSE onload([type |-> "", parsed |-> NoParsed, error |-> ""], r.text, r.ex)

\* C20: whatever the order in which the reads of a sequence of selections
\* complete, once all have completed the filename, the detected type, the
\* parsed data and the error are those of the file selected last; parsed data
\* and an error are never both set.
C20_LastSelectionWins ==
    AllReadsDone =>
        /\ filename = LastRead.name
        /\ LastRead.status = "loaded" => type = OutcomeOf(LastRead).type
        /\ parsed = OutcomeOf(LastRead).parsed
        /\ error = OutcomeOf(LastRead).error
        /\ ~(parsed /= NoParsed /\ error /= "")
====
